---------------------------- MODULE Spec2Model ----------------------------
(***************************************************************************)
(* Model of src/offer_creation.py: a TokenManager holding one cached       *)
(* bearer token, OfferCreator.create_offer (one retry loop per offer) and  *)
(* main, which runs all create_offer coroutines with asyncio.gather over   *)
(* one aiohttp session whose TCPConnector limits the connections in use.   *)
(*                                                                         *)
(* Every coroutine runs on one event loop: code between two awaits is      *)
(* atomic, and one action of the model is one such stretch of code.        *)
(***************************************************************************)
EXTENDS Integers, Sequences, FiniteSets, TLC

(* ---- bounds of the model ---- *)
NumJobs == 2
MaxTime == 300
TickStep == 300

(* TCPConnector(limit=50) of line 213, scaled down so that the jobs         *)
(* outnumber the connections.                                               *)
limit == 1

(* ---- program constants ---- *)
max_retries == 3
SafetyMargin == 300
StatusOK == 200
StatusAccepted == 202

Jobs == 1..NumJobs

(* ---- the environment main reads (lines 193-195) ---- *)

(* the decimal texts of 1, 2, ... *)
Digits == <<"1", "2", "3", "4", "5", "6", "7", "8", "9">>

(* what os.environ.get returns for a variable that is not set is the None    *)
(* defined below; "" is a variable set to nothing                            *)
CredentialTexts == {"None", "", "id"}
NumOffersTexts == {"None", "", "abc", "0", "-1"} \cup {Digits[n] : n \in Jobs}

(* int(num_offers) of line 201: raises ValueError unless the text is a       *)
(* decimal number                                                            *)
IsIntText(text) == text \in {"0", "-1"} \cup {Digits[n] : n \in DOMAIN Digits}
IntOfText(text) ==
    IF text = "0" THEN 0
    ELSE IF text = "-1" THEN 0 - 1
    ELSE CHOOSE n \in DOMAIN Digits : Digits[n] = text

(* line 197: all([...]) is false when a value is None or empty *)
Truthy(text) == text \notin {"None", ""}

(* line 202 with < for <= *)
NonPositive_Strict(n) == n < 0

(* line 202: if num_offers <= 0 *)
NonPositive(n) == n <= 0

(* lines 197-206: main raises ValueError *)
ConfigError(e) ==
    \/ ~(Truthy(e.client_id) /\ Truthy(e.client_secret) /\ Truthy(e.num_offers))
    \/ ~IsIntText(e.num_offers)
    \/ NonPositive(IntOfText(e.num_offers))

None == "None"
Tokens == {"tokA"}
(* a key the JSON body of the token response does not have *)
Absent == "absent"
(* expires_in as the body carries it; "soon" is a value int() rejects *)
ExpiresInTexts == {"300", "600", "soon", Absent}

(* int(token_response['expires_in']) of line 38, for the texts above *)
CanConvert(text) == text \in {"300", "600"}
IntOf(text) == IF text = "300" THEN 300 ELSE 600

(* What the token endpoint can answer: a transport error (session.post or   *)
(* response.json() raises), a non-200 status, or a 200 with a JSON body.    *)
TokenReplies ==
    {[err |-> TRUE, status |-> 0, access_token |-> Absent, expires_in |-> Absent]}
    \cup {[err |-> FALSE, status |-> 401, access_token |-> Absent, expires_in |-> Absent]}
    \cup [err : {FALSE}, status : {StatusOK},
          access_token : Tokens \cup {Absent},
          expires_in : ExpiresInTexts]

(* What the offer-configure endpoint can answer: a transport error, or a    *)
(* response with a status.                                                  *)
CreateReplies ==
    {[err |-> TRUE, status |-> 0]}
    \cup [err : {FALSE}, status : {StatusAccepted, 500}]

VARIABLES
    env,               \* MS_CLIENT_ID, MS_CLIENT_SECRET, NUM_OFFERS as main reads them
    num_offers,        \* main's num_offers once converted (0 before)
    access_token,      \* TokenManager.access_token (None or a token)
    token_expires_at,  \* TokenManager.token_expires_at
    now,               \* what time.time() returns
    inUse,             \* connections the TCPConnector has handed out
    mainpc,            \* main: "start", "gather", "returned", "failed"
    pc,                \* per job: position in create_offer
    retry_count,       \* per job: create_offer's retry_count
    token,             \* per job: create_offer's local token
    result,            \* per job: what create_offer reported when it returned
    outcomes,          \* per job: how each attempt ended, in order
    sleeps,            \* per job: the arguments of its asyncio.sleep calls
    creationCalls,     \* per job: creation requests sent
    lastGood,          \* <<token, expiry>> of the latest complete token response
    maxGoodExpiry,     \* largest issueTime + expires_in of a complete response
    lastLifetime,      \* expires_in of the latest complete token response
    fetched,           \* per job: the tokens its get_token calls returned, in order
    bearers            \* per job: the bearer token of each creation request, in order

vars == <<env, num_offers, access_token, token_expires_at, now, inUse, mainpc, pc, retry_count,
          token, result, outcomes, sleeps, creationCalls, lastGood, maxGoodExpiry,
          lastLifetime, fetched, bearers>>

cacheVars == <<access_token, token_expires_at, lastGood, maxGoodExpiry, lastLifetime>>
envVars == <<env, num_offers>>

(* the jobs main has created: range(num_offers) of lines 215-218 *)
ActiveJobs == 1..num_offers
ghostJobVars == <<outcomes, sleeps, creationCalls>>

(* ---- pure helpers, one per condition or expression of the code ---- *)

(* the margin compared with <= : a token expiring in exactly 300 s is used *)
TokenValid_Inclusive(tok, expires, t) == tok \notin {None, ""} /\ t <= expires - SafetyMargin

(* line 21: self.access_token and time.time() < self.token_expires_at - 300 *)
TokenValid(tok, expires, t) == tok \notin {None, ""} /\ t < expires - SafetyMargin

(* the loop condition off by one: a fourth attempt *)
LoopCond_OffByOne(rc) == rc <= max_retries

(* line 158: while retry_count < max_retries *)
LoopCond(rc) == rc < max_retries

(* a constant pause in place of the exponential one *)
Backoff_Constant(rc) == 2

(* line 182: asyncio.sleep(2 ** retry_count) *)
Backoff(rc) == 2 ^ rc

(* line 181: if retry_count < max_retries *)
SleepCond(rc) == rc < max_retries

(* the loop's end without any report *)
FinalReport_Silent(rc) == "None"

(* lines 187-188: the exhaustion report after the loop *)
FinalReport(rc) == IF rc = max_retries THEN "Exhausted" ELSE "None"

(* a connector without a limit *)
CanAcquire_Unlimited(n) == n >= 0

(* line 213: the connector hands out a connection only below its limit *)
CanAcquire(n) == n < limit

(* a response that is never released keeps its connection *)
Release_Leak(n) == n

(* the connection goes back to the pool when the async with block is left *)
Release(n) == n - 1

(* a request that takes a connection the limiter does not count *)
Acquire_Uncounted(n) == n

(* lines 34 and 166: session.post takes one connection of the connector *)
Acquire(n) == n + 1

(* a handler that catches the errors of the creation call only *)
HandledErrors_TransportOnly == {"transport"}

(* line 178: except Exception catches what get_token and session.post raise *)
HandledErrors == {"token", "transport"}

(* time.sleep in place of asyncio.sleep: a sleeping job holds the event loop *)
BlockingStates_TimeSleep == {"sleep"}

(* lines 34, 166 and 182: the token call, the creation call and the sleep   *)
(* are awaited, so no position of a job keeps the event loop to itself       *)
BlockingStates == {}

(* the state before main runs, whatever the environment *)
InitProgram ==
    /\ num_offers = 0
    /\ access_token = None
    /\ token_expires_at = 0
    /\ now = 0
    /\ inUse = 0
    /\ mainpc = "start"
    /\ pc = [j \in Jobs |-> "idle"]
    /\ retry_count = [j \in Jobs |-> 0]
    /\ token = [j \in Jobs |-> None]
    /\ result = [j \in Jobs |-> "None"]
    /\ outcomes = [j \in Jobs |-> <<>>]
    /\ sleeps = [j \in Jobs |-> <<>>]
    /\ creationCalls = [j \in Jobs |-> 0]
    /\ lastGood = <<None, 0>>
    /\ maxGoodExpiry = 0
    /\ lastLifetime = 0
    /\ fetched = [j \in Jobs |-> <<>>]
    /\ bearers = [j \in Jobs |-> <<>>]

(* a run with credentials set and NUM_OFFERS = NumJobs *)
Init ==
    /\ env = [client_id |-> "id", client_secret |-> "id", num_offers |-> Digits[NumJobs]]
    /\ InitProgram

(* a run with any environment *)
InitAnyEnv ==
    /\ env \in [client_id : CredentialTexts, client_secret : CredentialTexts,
                 num_offers : NumOffersTexts]
    /\ InitProgram

(* lines 193-219: main validates the environment and raises, or opens the   *)
(* session and schedules one create_offer per offer                         *)
MainStart ==
    /\ mainpc = "start"
    /\ IF ConfigError(env)
       THEN /\ mainpc' = "config_error"
            /\ UNCHANGED <<num_offers, pc>>
       ELSE /\ mainpc' = "gather"
            /\ num_offers' = IntOfText(env.num_offers)
            /\ pc' = [j \in Jobs |->
                         IF j <= IntOfText(env.num_offers) THEN "loop" ELSE "idle"]
    /\ UNCHANGED <<env, access_token, token_expires_at, now, inUse, retry_count, token,
                   result, outcomes, sleeps, creationCalls, lastGood, maxGoodExpiry,
                   lastLifetime, fetched, bearers>>

(* the event loop can run job j: no other job holds the loop *)
Runnable(j) == \A i \in Jobs \ {j} : pc[i] \notin BlockingStates

(* lines 158-160, 20-22 and 187-188: where the code runs to from the head of *)
(* the loop, without awaiting, when retry_count is rc and the cache holds   *)
(* <<tok, expires>>: a cache hit leads to the creation call, a miss to the  *)
(* token call, the end of the loop to the return                            *)
HeadPc(rc, tok, expires) ==
    IF ~LoopCond(rc) THEN "done"
    ELSE IF TokenValid(tok, expires, now) THEN "post_wait"
    ELSE "tok_wait"

(* line 160: token = await get_token(...), on a cache hit (line 22) *)
HeadToken_Stale(j, rc, tok, expires) == token[j]

HeadToken(j, rc, tok, expires) ==
    IF LoopCond(rc) /\ TokenValid(tok, expires, now) THEN tok ELSE token[j]

(* line 160, on a cache hit: one more token returned by get_token *)
HeadFetched(j, rc, tok, expires) ==
    IF LoopCond(rc) /\ TokenValid(tok, expires, now)
    THEN Append(fetched[j], tok) ELSE fetched[j]

(* lines 187-188, when the loop is over *)
HeadResult(j, rc) ==
    IF ~LoopCond(rc) THEN FinalReport(rc) ELSE result[j]

(* the task of job j runs for the first time: lines 152-160 *)
LoopHead(j) ==
    /\ pc[j] = "loop"
    /\ Runnable(j)
    /\ pc' = [pc EXCEPT ![j] = HeadPc(retry_count[j], access_token, token_expires_at)]
    /\ token' = [token EXCEPT ![j] =
                    HeadToken(j, retry_count[j], access_token, token_expires_at)]
    /\ fetched' = [fetched EXCEPT ![j] =
                      HeadFetched(j, retry_count[j], access_token, token_expires_at)]
    /\ result' = [result EXCEPT ![j] = HeadResult(j, retry_count[j])]
    /\ UNCHANGED <<envVars, cacheVars, now, inUse, mainpc, retry_count, ghostJobVars,
                   bearers>>

(* line 34: session.post to the token endpoint gets a connection *)
TokenSend(j) ==
    /\ pc[j] = "tok_wait"
    /\ Runnable(j)
    /\ CanAcquire(inUse)
    /\ inUse' = Acquire(inUse)
    /\ pc' = [pc EXCEPT ![j] = "tok_flight"]
    /\ UNCHANGED <<envVars, cacheVars, now, mainpc, retry_count, token, result, ghostJobVars,
                   fetched, bearers>>

(* lines 178-183: an error of the given kind reaches the try of create_offer *)
(* while the cache holds <<tok, expires>>. A handled error counts a retry   *)
(* and sleeps, or (no sleep after the last retry) continues at the head of  *)
(* the loop; any other error leaves create_offer.                           *)
Handler(j, kind, outcome, tok, expires) ==
    /\ outcomes' = [outcomes EXCEPT ![j] = Append(@, outcome)]
    /\ IF kind \in HandledErrors
       THEN /\ retry_count' = [retry_count EXCEPT ![j] = @ + 1]
            /\ IF SleepCond(retry_count[j] + 1)
               THEN /\ pc' = [pc EXCEPT ![j] = "sleep"]
                    /\ sleeps' = [sleeps EXCEPT ![j] =
                                     Append(@, Backoff(retry_count[j] + 1))]
                    /\ UNCHANGED <<token, result, fetched>>
               ELSE /\ pc' = [pc EXCEPT ![j] = HeadPc(retry_count[j] + 1, tok, expires)]
                    /\ token' = [token EXCEPT ![j] =
                                    HeadToken(j, retry_count[j] + 1, tok, expires)]
                    /\ fetched' = [fetched EXCEPT ![j] =
                                      HeadFetched(j, retry_count[j] + 1, tok, expires)]
                    /\ result' = [result EXCEPT ![j] = HeadResult(j, retry_count[j] + 1)]
                    /\ UNCHANGED sleeps
       ELSE /\ pc' = [pc EXCEPT ![j] = "raised"]
            /\ UNCHANGED <<retry_count, sleeps, token, result, fetched>>

(* lines 34-45: the token endpoint's answer is handled *)
TokenReply(j, r) ==
    /\ pc[j] = "tok_flight"
    /\ Runnable(j)
    /\ inUse' = Release(inUse)
    /\ IF r.err \/ r.status # StatusOK \/ r.access_token = Absent
       THEN \* lines 40-45, or line 34, 36 or 37 raises: nothing was assigned
            /\ Handler(j, "token", "tokenfail", access_token, token_expires_at)
            /\ UNCHANGED cacheVars
       ELSE IF ~CanConvert(r.expires_in)
       THEN \* line 37 has assigned access_token, then line 38 raises
            /\ access_token' = r.access_token
            /\ Handler(j, "token", "tokenfail", r.access_token, token_expires_at)
            /\ UNCHANGED <<token_expires_at, lastGood, maxGoodExpiry, lastLifetime>>
       ELSE \* lines 37-39
            /\ access_token' = r.access_token
            /\ token_expires_at' = now + IntOf(r.expires_in)
            /\ lastGood' = <<r.access_token, now + IntOf(r.expires_in)>>
            /\ maxGoodExpiry' = IF now + IntOf(r.expires_in) > maxGoodExpiry
                                THEN now + IntOf(r.expires_in) ELSE maxGoodExpiry
            /\ lastLifetime' = IntOf(r.expires_in)
            /\ token' = [token EXCEPT ![j] = r.access_token]
            /\ fetched' = [fetched EXCEPT ![j] = Append(@, r.access_token)]
            /\ pc' = [pc EXCEPT ![j] = "post_wait"]
            /\ UNCHANGED <<retry_count, outcomes, sleeps, result>>
    /\ UNCHANGED <<envVars, now, mainpc, creationCalls, bearers>>

(* line 166: session.post to the offer endpoint gets a connection *)
CreateSend(j) ==
    /\ pc[j] = "post_wait"
    /\ Runnable(j)
    /\ CanAcquire(inUse)
    /\ inUse' = Acquire(inUse)
    /\ pc' = [pc EXCEPT ![j] = "post_flight"]
    /\ creationCalls' = [creationCalls EXCEPT ![j] = @ + 1]
    /\ bearers' = [bearers EXCEPT ![j] = Append(@, token[j])]
    /\ UNCHANGED <<envVars, cacheVars, now, mainpc, retry_count, token, result, outcomes,
                   sleeps, fetched>>

(* lines 170-188: the offer endpoint's answer is handled *)
CreateReply(j, r) ==
    /\ pc[j] = "post_flight"
    /\ Runnable(j)
    /\ inUse' = Release(inUse)
    /\ IF r.err
       THEN \* session.post or response.text() raises
            Handler(j, "transport", "transport", access_token, token_expires_at)
       ELSE IF r.status = StatusAccepted
       THEN \* lines 171-173
            /\ pc' = [pc EXCEPT ![j] = "done"]
            /\ result' = [result EXCEPT ![j] = "Succeeded"]
            /\ outcomes' = [outcomes EXCEPT ![j] = Append(@, "accepted")]
            /\ UNCHANGED <<retry_count, sleeps, token, fetched>>
       ELSE \* lines 174-176, then the break of line 185 and lines 187-188
            /\ pc' = [pc EXCEPT ![j] = "done"]
            /\ result' = [result EXCEPT ![j] = FinalReport(retry_count[j])]
            /\ outcomes' = [outcomes EXCEPT ![j] = Append(@, "status")]
            /\ UNCHANGED <<retry_count, sleeps, token, fetched>>
    /\ UNCHANGED <<envVars, cacheVars, now, mainpc, creationCalls, bearers>>

(* lines 182-183 and 158-160: the sleep is over, the loop continues *)
Wake(j) ==
    /\ pc[j] = "sleep"
    /\ Runnable(j)
    /\ pc' = [pc EXCEPT ![j] = HeadPc(retry_count[j], access_token, token_expires_at)]
    /\ token' = [token EXCEPT ![j] =
                    HeadToken(j, retry_count[j], access_token, token_expires_at)]
    /\ fetched' = [fetched EXCEPT ![j] =
                      HeadFetched(j, retry_count[j], access_token, token_expires_at)]
    /\ result' = [result EXCEPT ![j] = HeadResult(j, retry_count[j])]
    /\ UNCHANGED <<envVars, cacheVars, now, inUse, mainpc, retry_count, ghostJobVars,
                   bearers>>

(* time.time() moves on *)
Tick ==
    /\ now + TickStep <= MaxTime
    /\ now' = now + TickStep
    /\ UNCHANGED <<envVars, cacheVars, inUse, mainpc, pc, retry_count, token, result,
                   ghostJobVars, fetched, bearers>>

(* line 219: asyncio.gather returns when every task has returned, and       *)
(* raises as soon as one task has raised                                    *)
MainGather ==
    /\ mainpc = "gather"
    /\ \A i \in Jobs : pc[i] \notin BlockingStates
    /\ \/ \E j \in ActiveJobs : pc[j] = "raised"
       \/ \A j \in ActiveJobs : pc[j] = "done"
    /\ mainpc' = IF \E j \in ActiveJobs : pc[j] = "raised" THEN "failed" ELSE "returned"
    /\ UNCHANGED <<envVars, cacheVars, now, inUse, pc, retry_count, token, result,
                   ghostJobVars, fetched, bearers>>

Next ==
    \/ MainStart
    \/ \E j \in Jobs : LoopHead(j)
    \/ \E j \in Jobs : TokenSend(j)
    \/ \E j \in Jobs : \E r \in TokenReplies : TokenReply(j, r)
    \/ \E j \in Jobs : CreateSend(j)
    \/ \E j \in Jobs : \E r \in CreateReplies : CreateReply(j, r)
    \/ \E j \in Jobs : Wake(j)
    \/ Tick
    \/ MainGather

Spec == Init /\ [][Next]_vars

SpecAnyEnv == InitAnyEnv /\ [][Next]_vars

(* The event loop runs every task that can run, the network answers or     *)
(* fails every call, every sleep ends.                                     *)
JobStep(j) ==
    \/ LoopHead(j)
    \/ TokenSend(j)
    \/ \E r \in TokenReplies : TokenReply(j, r)
    \/ CreateSend(j)
    \/ \E r \in CreateReplies : CreateReply(j, r)
    \/ Wake(j)

Fairness ==
    /\ WF_vars(MainStart)
    /\ WF_vars(MainGather)
    /\ \A j \in Jobs : WF_vars(JobStep(j))

FairSpec == Init /\ [][Next]_vars /\ Fairness

AllDone == \A j \in Jobs : pc[j] = "done"


(* ------------------------------------------------------------------------ *)
(* Properties                                                               *)
(* ------------------------------------------------------------------------ *)

InFlight(state) == {j \in Jobs : pc[j] = state}

FailedAttempts(j) ==
    Cardinality({i \in DOMAIN outcomes[j] : outcomes[j][i] \in {"tokenfail", "transport"}})

(* C1: concurrent callers of get_token that find no valid token share one   *)
(* token exchange: a caller that arrives while an exchange is in flight     *)
(* waits for its result, so no exchange call is sent while another one is   *)
(* outstanding or while the token that one brought is cached and valid.     *)
C1_NoDuplicateExchange ==
    [][\A j \in Jobs :
          (pc[j] = "tok_wait" /\ pc'[j] = "tok_flight")
          => /\ InFlight("tok_flight") = {}
             /\ ~TokenValid(access_token, token_expires_at, now)]_vars

(* C2: a job whose creation call is answered with a non-accepted status on  *)
(* every attempt makes exactly max_retries creation calls, sleeps 2 s and   *)
(* then 4 s, and ends Exhausted.                                            *)
C2_StatusFailuresExhaust ==
    \A j \in Jobs :
        (/\ pc[j] = "done"
         /\ outcomes[j] # <<>>
         /\ \A i \in DOMAIN outcomes[j] : outcomes[j][i] = "status")
        => (/\ creationCalls[j] = max_retries
            /\ sleeps[j] = <<2, 4>>
            /\ result[j] = "Exhausted")

(* C3: a job whose creation call fails on the first two attempts (a status  *)
(* other than 202, or a transport error) and is accepted on the third ends  *)
(* Succeeded after exactly 3 creation calls: a job that has returned and    *)
(* has seen only such answers has seen all three.                           *)
C3_FailTwiceThenSucceed ==
    \A j \in Jobs :
        (/\ pc[j] = "done"
         /\ outcomes[j] # <<>>
         /\ \A i \in DOMAIN outcomes[j] :
                IF i < max_retries THEN outcomes[j][i] \in {"status", "transport"}
                ELSE outcomes[j][i] = "accepted")
        => (/\ Len(outcomes[j]) = max_retries
            /\ creationCalls[j] = max_retries
            /\ result[j] = "Succeeded")

(* C4: the creation requests whose response is outstanding never outnumber *)
(* the connector's limit, however many jobs have been started.              *)
C4_CreationRequestsBounded == Cardinality(InFlight("post_flight")) <= limit

(* C4 witness: the limit is reached by creation requests while a further    *)
(* job waits for a connection.                                              *)
C4_Witness ==
    /\ Cardinality(InFlight("post_flight")) = limit
    /\ InFlight("post_wait") # {}

(* C5: with a fair event loop and a network that answers or fails every     *)
(* call, every job returns, main returns, and main returns only after every *)
(* job has.                                                                 *)
C5_AllJobsTerminate ==
    /\ <>(mainpc = "returned")
    /\ [](mainpc = "returned" => AllDone)

(* C5 witness: main has returned after all jobs, more than the connector    *)
(* has connections, of which one ended Exhausted and one Succeeded.         *)
C5_Witness ==
    /\ mainpc = "returned"
    /\ AllDone
    /\ \E j \in Jobs : result[j] = "Exhausted"
    /\ \E j \in Jobs : result[j] = "Succeeded"

(* C6: no error of a job leaves create_offer, so gather never fails, and    *)
(* each job's retry count and result come from its own attempts alone.      *)
C6_ErrorsContained ==
    /\ mainpc # "failed"
    /\ \A j \in Jobs :
        /\ pc[j] # "raised"
        /\ retry_count[j] = FailedAttempts(j)
        /\ result[j] = "Exhausted" => FailedAttempts(j) = max_retries
        /\ result[j] = "Succeeded" => outcomes[j][Len(outcomes[j])] = "accepted"

(* C6 witness: one job has ended Exhausted after a failed token fetch while *)
(* a sibling has a request in flight and gather is still waiting.           *)
C6_Witness ==
    /\ mainpc = "gather"
    /\ \E j \in Jobs :
        /\ result[j] = "Exhausted"
        /\ \E i \in DOMAIN outcomes[j] : outcomes[j][i] = "tokenfail"
        /\ \E k \in Jobs \ {j} : pc[k] \in {"tok_flight", "post_flight"}

(* C7: once a token exchange has succeeded with expires_in = T at           *)
(* issueTime, a get_token call that starts at now < issueTime + T - 300     *)
(* makes no call to the token endpoint.                                     *)
C7_CacheHitWithinLifetime ==
    [][\A j \in Jobs :
          (pc[j] \in {"loop", "sleep"} /\ pc'[j] = "tok_wait")
          => ~(now < maxGoodExpiry - SafetyMargin)]_vars

(* C8: a get_token call that raises leaves access_token and                 *)
(* token_expires_at as they were.                                           *)
C8_FailedFetchKeepsCache ==
    [][\A j \in Jobs :
          (pc[j] = "tok_flight" /\ pc'[j] \notin {"tok_flight", "post_wait"})
          => (access_token' = access_token /\ token_expires_at' = token_expires_at)]_vars

(* C9: the cached token and expiry are the initial pair or the pair of one  *)
(* successful token response.                                               *)
C9_CachePairFromOneResponse == <<access_token, token_expires_at>> = lastGood

(* C10: a job sends at most max_retries creation requests; once it has      *)
(* returned it stays returned with its result; after an accepted response   *)
(* it has returned and sends nothing more.                                  *)
C10_BoundedAttemptsOneResult ==
    /\ [](\A j \in Jobs :
            /\ creationCalls[j] <= max_retries
            /\ Len(outcomes[j]) <= max_retries
            /\ (\E i \in DOMAIN outcomes[j] : outcomes[j][i] = "accepted")
               => (pc[j] = "done" /\ result[j] = "Succeeded"))
    /\ [][\A j \in Jobs :
            pc[j] = "done"
            => /\ pc'[j] = "done"
               /\ result'[j] = result[j]
               /\ creationCalls'[j] = creationCalls[j]
               /\ outcomes'[j] = outcomes[j]]_vars

(* C10 witness: a job has returned Succeeded on its third creation call.    *)
C10_Witness ==
    \E j \in Jobs :
        /\ pc[j] = "done"
        /\ result[j] = "Succeeded"
        /\ creationCalls[j] = max_retries

(* C11: when NUM_OFFERS is 0, negative or not a number, or a credential or  *)
(* NUM_OFFERS is missing, main raises before it creates a job and before    *)
(* any call to the token or the offer endpoint.                             *)
BadEnvironment ==
    \/ env.client_id \in {"None", ""}
    \/ env.client_secret \in {"None", ""}
    \/ env.num_offers \in {"None", "", "abc", "0", "-1"}

C11_ConfigErrorBeforeAnyCall ==
    BadEnvironment =>
        /\ mainpc \in {"start", "config_error"}
        /\ num_offers = 0
        /\ inUse = 0
        /\ access_token = None
        /\ \A j \in Jobs : pc[j] = "idle" /\ creationCalls[j] = 0 /\ outcomes[j] = <<>>

(* C11 witness: main has raised for a NUM_OFFERS of 0, -1 or a text that is *)
(* no number, with both credentials set.                                    *)
C11_Witness ==
    /\ mainpc = "config_error"
    /\ env.client_id = "id"
    /\ env.client_secret = "id"
    /\ env.num_offers \in {"abc", "0", "-1"}

(* C12: every job ends as Succeeded or as Exhausted; a job that returned    *)
(* without an accepted response has made max_retries failed attempts and    *)
(* has written the exhaustion report.                                       *)
C12_SucceededOrExhausted ==
    \A j \in Jobs :
        pc[j] = "done" =>
            /\ result[j] \in {"Succeeded", "Exhausted"}
            /\ result[j] # "Succeeded" =>
                   FailedAttempts(j) = max_retries /\ retry_count[j] = max_retries

(* every outcome the job has recorded so far is of the given kind *)
AllOutcomes(j, kind) ==
    /\ outcomes[j] # <<>>
    /\ \A i \in DOMAIN outcomes[j] : outcomes[j][i] = kind

(* C13: a job whose every attempt raises a transport error makes exactly 3  *)
(* creation calls, sleeps 2 s after the first and 4 s after the second      *)
(* failure, does not sleep after the third, and ends as Exhausted.          *)
C13_TransportErrorsExhaust ==
    \A j \in Jobs :
        AllOutcomes(j, "transport") =>
            /\ Len(outcomes[j]) <= max_retries
            /\ creationCalls[j] =
                   Len(outcomes[j]) + (IF pc[j] = "post_flight" THEN 1 ELSE 0)
            /\ sleeps[j] = IF Len(outcomes[j]) = 1 THEN <<2>> ELSE <<2, 4>>
            /\ (pc[j] = "done") <=> (Len(outcomes[j]) = max_retries)
            /\ pc[j] = "done" => result[j] = "Exhausted" /\ creationCalls[j] = max_retries

(* C13 witness: a job has returned after three transport errors. *)
C13_Witness ==
    \E j \in Jobs :
        /\ pc[j] = "done"
        /\ outcomes[j] = <<"transport", "transport", "transport">>

(* C14: a failure of get_token counts as a failed attempt of the job: it    *)
(* uses up one attempt, no creation call is made in that attempt, the job   *)
(* backs off and goes on with a next attempt; a job whose token fetch fails *)
(* three times ends as Exhausted with no creation call made.                *)
C14_TokenFailureIsRetriable ==
    \A j \in Jobs :
        /\ creationCalls[j] =
               Cardinality({i \in DOMAIN outcomes[j] : outcomes[j][i] # "tokenfail"})
                   + (IF pc[j] = "post_flight" THEN 1 ELSE 0)
        /\ retry_count[j] = FailedAttempts(j)
        /\ Len(sleeps[j]) = IF FailedAttempts(j) < max_retries
                            THEN FailedAttempts(j) ELSE max_retries - 1
        /\ (/\ outcomes[j] # <<>>
            /\ outcomes[j][Len(outcomes[j])] = "tokenfail"
            /\ Len(outcomes[j]) < max_retries)
               => pc[j] \in {"sleep", "tok_wait", "tok_flight", "post_wait", "post_flight"}
        /\ (pc[j] = "done" /\ AllOutcomes(j, "tokenfail")) =>
               /\ Len(outcomes[j]) = max_retries
               /\ creationCalls[j] = 0
               /\ result[j] = "Exhausted"

(* C14 witness: a job has returned after three failed token fetches. *)
C14_Witness ==
    \E j \in Jobs :
        /\ pc[j] = "done"
        /\ outcomes[j] = <<"tokenfail", "tokenfail", "tokenfail">>

Suspended == {"sleep", "tok_flight", "post_flight"}

OutstandingCalls == InFlight("tok_flight") \cup InFlight("post_flight")

(* C17: token exchanges and creation requests share one limiter: the        *)
(* connections in use are those of the outstanding calls of both kinds, one *)
(* per job, never more than the limit, and none is held by a job that       *)
(* sleeps or waits for a connection.                                        *)
C17_SharedConnectionLimit ==
    /\ inUse = Cardinality(OutstandingCalls)
    /\ inUse <= limit
    /\ inUse >= 0

(* C17 witness: a creation request holds the last connection and a token    *)
(* exchange of another job waits for it.                                    *)
C17_Witness ==
    /\ inUse = limit
    /\ \E i, j \in Jobs :
           /\ pc[i] = "post_flight"
           /\ pc[j] = "tok_wait"

(* the latest complete token response had a lifetime within the margin *)
ShortLivedStored == lastGood[1] # None /\ lastLifetime <= SafetyMargin

(* C18: while the stored token comes from a response with expires_in <= 300 *)
(* it is never valid, and every get_token call, of any job, goes to the     *)
(* token endpoint.                                                          *)
C18_ShortLifetimeNeverCached ==
    /\ [](ShortLivedStored => ~TokenValid(access_token, token_expires_at, now))
    /\ [][ShortLivedStored =>
             \A j \in Jobs :
                 (pc[j] \in {"loop", "sleep"} /\ pc'[j] # pc[j]) => pc'[j] = "tok_wait"]_vars

(* C18 witness: at time 0 a job that was already given a token exchanges    *)
(* again, the stored token being one of lifetime 300.                       *)
C18_Witness ==
    /\ ShortLivedStored
    /\ now = 0
    /\ \E j \in Jobs :
           /\ pc[j] = "tok_flight"
           /\ Len(fetched[j]) >= 1

=============================================================================
